---- MODULE Spec2Model ----
(***************************************************************************)
(* Model of the log viewer of loglog: the background retrieval task        *)
(* (LogViewerComponent::fetch_logs), the lock-protected LogViewerState it  *)
(* shares with the foreground loop, the unbounded channel that carries     *)
(* LogViewerOutboundMessage values, and the viewer's key handlers.         *)
(*                                                                         *)
(* The remote log service is the environment: it accepts or rejects a      *)
(* start_query request and answers every get_query_results request with a  *)
(* status and the rows it has so far, or with a transport error.           *)
(*                                                                         *)
(* rat_ftable's TableState (the scroll position kept by the library) is    *)
(* not part of this model; rendering reads the state and changes nothing.  *)
(*                                                                         *)
(* The module holds one specification per component, over one set of       *)
(* variables; the variables of the components a specification does not     *)
(* run hold the empty tuple throughout:                                    *)
(*   Spec        the log viewer of log_viewer.rs,                          *)
(*   SpecFair    the same under fair scheduling,                           *)
(*   SpecLegacy  the earlier copy of the viewer kept in log_group.rs,      *)
(*   SpecTable   the scrolling table of table.rs,                          *)
(*   SpecList    the log group list of log_groups.rs under App,            *)
(*   SpecTasks   the background tasks of the viewer and of the list.       *)
(***************************************************************************)
EXTENDS Integers, Sequences, FiniteSets, TLC

\* ---------------------------------------------------------------- bounds
\* Number of retrieval tasks that may be spawned in one run.
MaxTasks == 2
\* Number of UnselectLogGroup messages that may wait in the channel.
MaxChan == 1

Tasks == 1..MaxTasks

\* --------------------------------------------------------- remote data
Groups == {"g1", "g2"}
NoGroup == "<no group>"

\* Option::None of a ResultField's value.
NoValue == "<None>"

\* One row of a get_query_results response: the fields of one log event.
ResultRow(v) == << [field |-> "@message", value |-> v],
                   [field |-> "@ptr", value |-> "ptr"] >>

\* The rows the service may hold for a query of group g, in the order in
\* which it returns them.
Results(g) ==
    IF g = "g1"
    THEN { << ResultRow("c"), ResultRow("a"), ResultRow("b") >> }
    ELSE { << ResultRow("y"), ResultRow(NoValue) >>, << >> }

\* The lines a query of group g can produce.
LinesOf(g) == IF g = "g1" THEN {"a", "b", "c"} ELSE {"y", ""}

\* Time stamp of a log event of group g1: a is the oldest, c the most recent.
TimeOf(v) == CASE v = "a" -> 0 [] v = "b" -> 1 [] v = "c" -> 2 [] OTHER -> 0

Prefixes(s) == { SubSeq(s, 1, n) : n \in 0..Len(s) }

\* QueryStatus values the service reports, and how a query's status evolves.
Terminal == {"Complete", "Failed", "Timeout"}
NextStatus(s) ==
    CASE s = "Scheduled" -> {"Scheduled", "Running"} \cup Terminal
      [] s = "Running" -> {"Running"} \cup Terminal
      [] OTHER -> {s}

\* The rows a response with status s carries for a query of group g: all of
\* them once the query is complete, some of them while it runs.
ResponseRows(s, g) ==
    CASE s = "Complete" -> Results(g)
      [] s = "Running" -> UNION { Prefixes(rows) : rows \in Results(g) }
      [] OTHER -> {<< >>}

\* ------------------------------------------------------------- helpers
RECURSIVE Flatten(_)
Flatten(rows) ==
    IF rows = << >> THEN << >> ELSE Head(rows) \o Flatten(Tail(rows))

Reverse(s) == [i \in 1..Len(s) |-> s[Len(s) + 1 - i]]

IsMessage(f) == f.field = "@message"

UnwrapOrDefault(v) == IF v = NoValue THEN "" ELSE v

\* Option<usize>
None == [some |-> FALSE, v |-> 0]
Some(k) == [some |-> TRUE, v |-> k]
unwrap_or(o, d) == IF o.some THEN o.v ELSE d

Min(a, b) == IF a <= b THEN a ELSE b
Max(a, b) == IF a >= b THEN a ELSE b

\* Faulty variant of ExtractMessages: the .rev() is missing.
ExtractMessagesNoRev(rows) ==
    LET fs == SelectSeq(Flatten(rows), IsMessage)
    IN  [i \in 1..Len(fs) |-> UnwrapOrDefault(fs[i].value)]

\* results.into_iter().flatten().filter(@message).map(value).rev().collect()
ExtractMessages(rows) ==
    LET fs == SelectSeq(Flatten(rows), IsMessage)
    IN  Reverse([i \in 1..Len(fs) |-> UnwrapOrDefault(fs[i].value)])

\* Faulty variant of StatusArm: the Running arm notifies as well.
StatusArmNotifyRunning(status) ==
    CASE status = "Complete" -> [loading |-> "Loaded", notify |-> TRUE, brk |-> TRUE]
      [] status = "Running" -> [loading |-> "Loading", notify |-> TRUE, brk |-> FALSE]
      [] OTHER -> [loading |-> "Idle", notify |-> FALSE, brk |-> FALSE]

\* Faulty variant of StatusArm: the Running arm falls into the default arm.
StatusArmRunningIdle(status) ==
    CASE status = "Complete" -> [loading |-> "Loaded", notify |-> TRUE, brk |-> TRUE]
      [] OTHER -> [loading |-> "Idle", notify |-> FALSE, brk |-> FALSE]

\* Faulty variant of StatusArm: the Complete arm is missing, Complete is
\* handled like Running.
StatusArmNoComplete(status) ==
    CASE status \in {"Complete", "Running"} ->
           [loading |-> "Loading", notify |-> FALSE, brk |-> FALSE]
      [] OTHER -> [loading |-> "Idle", notify |-> FALSE, brk |-> FALSE]

\* match response.status: the status written, whether ReRender is sent and
\* whether the loop is left.
StatusArm(status) ==
    CASE status = "Complete" -> [loading |-> "Loaded", notify |-> TRUE, brk |-> TRUE]
      [] status = "Running" -> [loading |-> "Loading", notify |-> FALSE, brk |-> FALSE]
      [] OTHER -> [loading |-> "Idle", notify |-> FALSE, brk |-> FALSE]

\* --------------------------------------------------------------- state
VARIABLES
    loading_state,      \* LogViewerState.loading_state
    log_messsages,      \* LogViewerState.log_messsages
    lock,               \* holder of the RwLock's write guard: 0 free, t a task
    last_writer,        \* history: who wrote the shared state last (0 foreground)
    chan,               \* the channel behind group_selection_tx
    n_tasks,            \* number of tasks spawned so far
    pc,                 \* where each task is
    task_group,         \* the log_group_name a task was spawned with
    restarted,          \* history: the task was spawned by the 'r' key
    q_status,           \* the service's status of a task's query
    resp,               \* the response a task is handling
    notified,           \* history: ReRender messages a task has sent
    wrote_final,        \* history: the task has written a Complete result
    log_group_name,     \* LogViewerComponent.log_group_name
    displayed_messages, \* LogViewerComponent.displayed_messages
    selected,           \* the application's selected group, NoGroup if none
    fg_pc,              \* where the foreground loop is
    fg_from             \* history: sender of the message being handled

\* table.rs
VARIABLES
    y,                  \* Table.y
    data,               \* Table.data
    frame,              \* what the last render drew, and from which inputs
    table_status,       \* "ok", or the call that panicked
    overflow_checks,    \* the build checks integer overflow (debug profile)
    table_last          \* history: the last call made on the table

viewer_vars ==
    << loading_state, log_messsages, lock, last_writer, chan, n_tasks, pc,
       task_group, restarted, q_status, resp, notified, wrote_final,
       log_group_name, displayed_messages, selected, fg_pc, fg_from >>

\* log_groups.rs, and App of main.rs
VARIABLES
    log_groups,         \* LogGroupListState.log_groups
    list_loading_state, \* LogGroupListState.loading_state
    table_state,        \* LogGroupListState.table_state: the selected row
    list_lock,          \* holder of the list's write guard: 0 free, t a fetch task
    list_chan,          \* the channel behind LogGroupListState.group_selection_tx
    sorted_log_groups,  \* LogGroupListComponent.sorted_log_groups
    search_term,        \* LogGroupListComponent.search_term
    is_searching,       \* LogGroupListComponent.is_searching
    should_quit,        \* App.should_quit
    n_fetch,            \* number of fetch tasks spawned so far
    fetch_pc,           \* where each fetch task is
    next_token,         \* the page a fetch task requests next
    list_last           \* history: the last step of the list, and its outcome

table_vars == << y, data, frame, table_status, overflow_checks, table_last >>

list_vars == << log_groups, list_loading_state, table_state, list_lock, list_chan,
                sorted_log_groups, search_term, is_searching, should_quit,
                n_fetch, fetch_pc, next_token, list_last >>

vars == << viewer_vars, table_vars, list_vars >>

\* What the actions of a component leave alone.
outside_viewer == << table_vars, list_vars >>
outside_table == << viewer_vars, list_vars >>
outside_list == << viewer_vars, table_vars >>

\* A component that a specification does not run is absent from it: each of
\* its variables holds the empty tuple throughout.
ViewerParked ==
    /\ loading_state = << >>
    /\ log_messsages = << >>
    /\ lock = << >>
    /\ last_writer = << >>
    /\ chan = << >>
    /\ n_tasks = << >>
    /\ pc = << >>
    /\ task_group = << >>
    /\ restarted = << >>
    /\ q_status = << >>
    /\ resp = << >>
    /\ notified = << >>
    /\ wrote_final = << >>
    /\ log_group_name = << >>
    /\ displayed_messages = << >>
    /\ selected = << >>
    /\ fg_pc = << >>
    /\ fg_from = << >>

ListParked ==
    /\ log_groups = << >>
    /\ list_loading_state = << >>
    /\ table_state = << >>
    /\ list_lock = << >>
    /\ list_chan = << >>
    /\ sorted_log_groups = << >>
    /\ search_term = << >>
    /\ is_searching = << >>
    /\ should_quit = << >>
    /\ n_fetch = << >>
    /\ fetch_pc = << >>
    /\ next_token = << >>
    /\ list_last = << >>

TableParked ==
    /\ y = << >>
    /\ data = << >>
    /\ frame = << >>
    /\ table_status = << >>
    /\ overflow_checks = << >>
    /\ table_last = << >>


shared == << loading_state, log_messsages, last_writer >>
remote == << q_status >>
viewer == << log_group_name, displayed_messages, selected, fg_pc, fg_from >>
spawns == << n_tasks, task_group, restarted >>

NoResp == [status |-> "none", rows |-> << >>]

\* LogViewerOutboundMessage; from is a history field naming the sender.
Msg(k, t) == [kind |-> k, from |-> t]

\* LogViewerComponent::new
ViewerInit ==
    /\ loading_state = "Loading"
    /\ log_messsages = << >>
    /\ lock = 0
    /\ last_writer = 0
    /\ chan = << >>
    /\ n_tasks = 0
    /\ pc = [t \in Tasks |-> "unspawned"]
    /\ task_group = [t \in Tasks |-> NoGroup]
    /\ restarted = [t \in Tasks |-> FALSE]
    /\ q_status = [t \in Tasks |-> "none"]
    /\ resp = [t \in Tasks |-> NoResp]
    /\ notified = [t \in Tasks |-> 0]
    /\ wrote_final = [t \in Tasks |-> FALSE]
    /\ log_group_name = ""
    /\ displayed_messages = << >>
    /\ selected = NoGroup
    /\ fg_pc = "idle"
    /\ fg_from = 0

\* ----------------------------------------------------- retrieval task
\* run(): tokio::spawn(fetch_logs(state.clone(), log_group_name.clone()))
run(byRestart) ==
    /\ n_tasks < MaxTasks
    /\ n_tasks' = n_tasks + 1
    /\ pc' = [pc EXCEPT ![n_tasks + 1] = "spawned"]
    /\ task_group' = [task_group EXCEPT ![n_tasks + 1] = log_group_name']
    /\ restarted' = [restarted EXCEPT ![n_tasks + 1] = byRestart]

\* state.write().unwrap().loading_state = Loading, then the start_query
\* request is awaited.
TaskBegin(t) ==
    /\ pc[t] = "spawned"
    /\ lock = 0
    /\ loading_state' = "Loading"
    /\ last_writer' = t
    /\ pc' = [pc EXCEPT ![t] = "starting"]
    /\ UNCHANGED << log_messsages, lock, chan, spawns, remote, resp, notified, wrote_final, viewer >>
    /\ UNCHANGED outside_viewer

\* start_query answers Ok: the query exists and the poll loop is entered.
TaskStartOk(t) ==
    /\ pc[t] = "starting"
    /\ q_status' = [q_status EXCEPT ![t] = "Scheduled"]
    /\ pc' = [pc EXCEPT ![t] = "polling"]
    /\ UNCHANGED << shared, lock, chan, spawns, resp, notified, wrote_final, viewer >>
    /\ UNCHANGED outside_viewer

\* start_query answers Err: panic!("Error: {:?}", e).
TaskStartErr(t) ==
    /\ pc[t] = "starting"
    /\ pc' = [pc EXCEPT ![t] = "panic_start"]
    /\ UNCHANGED << shared, lock, chan, spawns, remote, resp, notified, wrote_final, viewer >>
    /\ UNCHANGED outside_viewer

\* Faulty variant of TaskPollOk: on Complete, ReRender is sent before the guard is
\* taken and the shared state written.
TaskPollOkSendEarly(t) ==
    /\ pc[t] = "polling"
    /\ lock = 0
    /\ \E s \in NextStatus(q_status[t]) :
         \E rows \in ResponseRows(s, task_group[t]) :
            /\ q_status' = [q_status EXCEPT ![t] = s]
            /\ IF StatusArm(s).notify
               THEN /\ chan' = Append(chan, Msg("ReRender", t))
                    /\ pc' = [pc EXCEPT ![t] = "notify"]
                    /\ resp' = [resp EXCEPT ![t] = [status |-> s, rows |-> rows]]
                    /\ UNCHANGED << shared, wrote_final >>
               ELSE /\ log_messsages' = ExtractMessages(rows)
                    /\ loading_state' = StatusArm(s).loading
                    /\ last_writer' = t
                    /\ UNCHANGED << chan, pc, resp, wrote_final >>
    /\ lock' = 0
    /\ UNCHANGED << spawns, notified, viewer >>
    /\ UNCHANGED outside_viewer

\* The 250 ms sleep ends and get_query_results answers Ok(response): take the
\* write guard, replace log_messsages, match the status.  In the Complete arm
\* the guard is kept while ReRender is sent; in the other arms it is dropped
\* at the end of the arm and the loop goes back to the sleep.
TaskPollOk(t) ==
    /\ pc[t] = "polling"
    /\ lock = 0
    /\ \E s \in NextStatus(q_status[t]) :
         \E rows \in ResponseRows(s, task_group[t]) :
            /\ q_status' = [q_status EXCEPT ![t] = s]
            /\ log_messsages' = ExtractMessages(rows)
            /\ loading_state' = StatusArm(s).loading
            /\ IF StatusArm(s).notify
               THEN /\ lock' = t
                    /\ pc' = [pc EXCEPT ![t] = "notify"]
                    /\ resp' = [resp EXCEPT ![t] = [status |-> s, rows |-> rows]]
                    /\ wrote_final' = [wrote_final EXCEPT ![t] = StatusArm(s).brk]
               ELSE /\ lock' = 0
                    /\ UNCHANGED << pc, resp, wrote_final >>
    /\ last_writer' = t
    /\ UNCHANGED << chan, spawns, notified, viewer >>
    /\ UNCHANGED outside_viewer

\* get_query_results answers Err: panic!("Error: {:?}", e).
TaskPollErr(t) ==
    /\ pc[t] = "polling"
    /\ pc' = [pc EXCEPT ![t] = "panic_poll"]
    /\ UNCHANGED << shared, lock, chan, spawns, remote, resp, notified,
                    wrote_final, viewer >>
    /\ UNCHANGED outside_viewer

\* group_selection_tx.send(ReRender); break (the guard is dropped).
TaskNotify(t) ==
    /\ pc[t] = "notify"
    /\ chan' = Append(chan, Msg("ReRender", t))
    /\ notified' = [notified EXCEPT ![t] = @ + 1]
    /\ lock' = 0
    /\ pc' = [pc EXCEPT ![t] = IF StatusArm(resp[t].status).brk
                               THEN "done" ELSE "polling"]
    /\ resp' = [resp EXCEPT ![t] = NoResp]
    /\ UNCHANGED << shared, spawns, remote, wrote_final, viewer >>
    /\ UNCHANGED outside_viewer

\* ------------------------------------------------------ foreground loop
\* The application handles SelectedGroup(g): the viewer gets the name and a
\* retrieval task is spawned.
SelectGroup(g) ==
    /\ fg_pc = "idle"
    /\ selected = NoGroup
    /\ selected' = g
    /\ log_group_name' = g
    /\ run(FALSE)
    /\ UNCHANGED << shared, lock, chan, remote, resp, notified, wrote_final,
                    displayed_messages, fg_pc, fg_from >>
    /\ UNCHANGED outside_viewer

\* handle_event, Esc: UnselectLogGroup is sent under the write guard.
KeyEsc ==
    /\ fg_pc = "idle"
    /\ selected # NoGroup
    /\ lock = 0
    /\ Len(SelectSeq(chan, LAMBDA m : m.kind = "UnselectLogGroup")) < MaxChan
    /\ chan' = Append(chan, Msg("UnselectLogGroup", 0))
    /\ UNCHANGED << shared, lock, spawns, pc, remote, resp, notified, wrote_final, viewer >>
    /\ UNCHANGED outside_viewer

\* handle_event, 'r': self.run().
KeyR ==
    /\ fg_pc = "idle"
    /\ selected # NoGroup
    /\ log_group_name' = log_group_name
    /\ run(TRUE)
    /\ UNCHANGED << shared, lock, chan, remote, resp, notified, wrote_final,
                    displayed_messages, selected, fg_pc, fg_from >>
    /\ UNCHANGED outside_viewer

\* The application receives a message of the viewer's channel: ReRender leads
\* to set_logs, UnselectLogGroup deselects the group and leads to clear_logs.
Recv ==
    /\ fg_pc = "idle"
    /\ chan # << >>
    /\ chan' = Tail(chan)
    /\ fg_from' = Head(chan).from
    /\ IF Head(chan).kind = "ReRender"
       THEN /\ fg_pc' = "set_logs"
            /\ selected' = selected
       ELSE /\ fg_pc' = "clear_logs"
            /\ selected' = NoGroup
    /\ UNCHANGED << shared, lock, spawns, pc, remote, resp, notified,
                    wrote_final, log_group_name, displayed_messages >>
    /\ UNCHANGED outside_viewer

\* set_logs: copy log_messsages under the read guard.
set_logs ==
    /\ fg_pc = "set_logs"
    /\ lock = 0
    /\ displayed_messages' = log_messsages
    /\ fg_pc' = "idle"
    /\ fg_from' = 0
    /\ UNCHANGED << shared, lock, chan, spawns, pc, remote, resp, notified,
                    wrote_final, log_group_name, selected >>
    /\ UNCHANGED outside_viewer

\* clear_logs: clear log_messsages under the write guard, and the display.
clear_logs ==
    /\ fg_pc = "clear_logs"
    /\ lock = 0
    /\ log_messsages' = << >>
    /\ last_writer' = 0
    /\ displayed_messages' = << >>
    /\ fg_pc' = "idle"
    /\ fg_from' = 0
    /\ UNCHANGED << loading_state, lock, chan, spawns, pc, remote, resp,
                    notified, wrote_final, log_group_name, selected >>
    /\ UNCHANGED outside_viewer

TaskNext(t) ==
    \/ TaskBegin(t)
    \/ TaskStartOk(t)
    \/ TaskStartErr(t)
    \/ TaskPollOk(t)
    \/ TaskPollErr(t)
    \/ TaskNotify(t)

Init == ViewerInit /\ TableParked /\ ListParked

Next ==
    \/ \E t \in Tasks : TaskNext(t)
    \/ \E g \in Groups : SelectGroup(g)
    \/ KeyEsc
    \/ KeyR
    \/ Recv
    \/ set_logs
    \/ clear_logs

Spec == Init /\ [][Next]_vars

\* A poll of task t that the service answers with Complete.
TaskPollComplete(t) == TaskPollOk(t) /\ q_status'[t] = "Complete"

\* The runtime schedules every spawned task again and again, and the service
\* does not leave a query that is polled again and again unfinished for
\* ever: unless the query fails or times out, some poll is answered with
\* Complete.
Fairness ==
    \A t \in Tasks : WF_vars(TaskNext(t)) /\ SF_vars(TaskPollComplete(t))

SpecFair == Init /\ [][Next]_vars /\ Fairness

\* ============================================================ log_group.rs
\* The earlier copy of the viewer, LogVieweromponent: the same state, channel
\* and handlers, except that the component starts Idle, the lines are kept in
\* the order of the response, the Complete arm writes Loaded only when there
\* is a line, and there is no 'r' key.  ratatui's TableState that it keeps
\* in the shared state is not part of this model.

\* LogVieweromponent::new
LegacyInit ==
    /\ loading_state = "Idle"
    /\ log_messsages = << >>
    /\ lock = 0
    /\ last_writer = 0
    /\ chan = << >>
    /\ n_tasks = 0
    /\ pc = [t \in Tasks |-> "unspawned"]
    /\ task_group = [t \in Tasks |-> NoGroup]
    /\ restarted = [t \in Tasks |-> FALSE]
    /\ q_status = [t \in Tasks |-> "none"]
    /\ resp = [t \in Tasks |-> NoResp]
    /\ notified = [t \in Tasks |-> 0]
    /\ wrote_final = [t \in Tasks |-> FALSE]
    /\ log_group_name = ""
    /\ displayed_messages = << >>
    /\ selected = NoGroup
    /\ fg_pc = "idle"
    /\ fg_from = 0

\* results.into_iter().flatten().filter(@message).map(value).collect()
LegacyExtractMessages(rows) ==
    LET fs == SelectSeq(Flatten(rows), IsMessage)
    IN  [i \in 1..Len(fs) |-> UnwrapOrDefault(fs[i].value)]

\* match response.status of fetch_log_groups: the status written, given the
\* lines just stored and the status found, whether ReRender is sent and
\* whether the loop is left.
LegacyStatusArm(status, lines, found) ==
    CASE status = "Complete" ->
           [loading |-> IF lines # << >> THEN "Loaded" ELSE found,
            notify |-> TRUE, brk |-> TRUE]
      [] status = "Running" -> [loading |-> "Loading", notify |-> FALSE, brk |-> FALSE]
      [] OTHER -> [loading |-> "Idle", notify |-> FALSE, brk |-> FALSE]

\* fetch_log_groups: the sleep ends and get_query_results answers
\* Ok(response).
LegacyTaskPollOk(t) ==
    /\ pc[t] = "polling"
    /\ lock = 0
    /\ \E s \in NextStatus(q_status[t]) :
         \E rows \in ResponseRows(s, task_group[t]) :
            LET lines == LegacyExtractMessages(rows)
                arm == LegacyStatusArm(s, lines, loading_state)
            IN  /\ q_status' = [q_status EXCEPT ![t] = s]
                /\ log_messsages' = lines
                /\ loading_state' = arm.loading
                /\ IF arm.notify
                   THEN /\ lock' = t
                        /\ pc' = [pc EXCEPT ![t] = "notify"]
                        /\ resp' = [resp EXCEPT ![t] = [status |-> s, rows |-> rows]]
                        /\ wrote_final' = [wrote_final EXCEPT ![t] = arm.brk]
                   ELSE /\ lock' = 0
                        /\ UNCHANGED << pc, resp, wrote_final >>
    /\ last_writer' = t
    /\ UNCHANGED << chan, spawns, notified, viewer >>
    /\ UNCHANGED outside_viewer

LegacyTaskNext(t) ==
    \/ TaskBegin(t)
    \/ TaskStartOk(t)
    \/ TaskStartErr(t)
    \/ LegacyTaskPollOk(t)
    \/ TaskPollErr(t)
    \/ TaskNotify(t)

LegacyNext ==
    \/ \E t \in Tasks : LegacyTaskNext(t)
    \/ \E g \in Groups : SelectGroup(g)
    \/ KeyEsc
    \/ Recv
    \/ set_logs
    \/ clear_logs

InitLegacy == LegacyInit /\ TableParked /\ ListParked

SpecLegacy == InitLegacy /\ [][LegacyNext]_vars

\* ================================================================ table.rs
\* The table of log lines: data holds the lines, oldest first, and y counts
\* lines up from the most recent one.  The model's lines are numbered by
\* their 1-based position in data.  The area the table is drawn into is taken
\* to be at least 2 columns wide, so that area.width - 2 does not underflow.

\* -------------------------------------------------------------- bounds
\* Largest number of lines a table holds.
MaxLines == 10
\* Largest height of the area a table is rendered into.
MaxHeight == 5
\* Largest y followed on an empty table in a build without overflow checks.
MaxY == 3

\* No render has happened yet.
NoFrame == [done |-> FALSE, n |-> 0, y |-> 0, h |-> 0, starting |-> 0,
            rows |-> << >>, border |-> FALSE]

Sizes == (0..3) \cup {MaxLines}
Heights == 0..MaxHeight

\* A Vec of n lines.
Lines(n) == [i \in 1..n |-> i]

\* The amounts a caller may pass for by.
Amounts == {None, Some(3), Some(10)}

\* usize::saturating_sub
saturating_sub(a, b) == IF a >= b THEN a - b ELSE 0

\* (height - 2) as usize, the subtraction done in u16 without overflow checks.
WrappingSub16(a, b) == (a - b) % (2 ^ 16)

\* Iterator::skip and Iterator::take
Skip(s, k) == SubSeq(s, k + 1, Len(s))
Take(s, k) == SubSeq(s, 1, Min(k, Len(s)))

\* Faulty variant of RenderFrame: the window is counted from the oldest line
\* (data.iter().skip(starting).take(innner_height)).
RenderFrameFromTop(d, yy, height) ==
    IF height < 1
    THEN [done |-> TRUE, n |-> Len(d), y |-> yy, h |-> height, starting |-> 0,
          rows |-> << >>, border |-> FALSE]
    ELSE
      LET innner_height == WrappingSub16(height, 2)
          starting == Min(yy, saturating_sub(Len(d), innner_height))
          messages == Take(Skip(d, starting), innner_height)
      IN  [done |-> TRUE, n |-> Len(d), y |-> yy, h |-> height,
           starting |-> starting,
           rows |-> [i \in 1..Len(messages) |->
                       [line |-> messages[i],
                        row |-> i,
                        emphasis |-> yy = starting + (innner_height - (i - 1)) - 1]],
           border |-> TRUE]

\* render, for an area of the given height whose inner height did not
\* overflow or was computed without overflow checks: the lines drawn, top to
\* bottom, each with its row below the top border and its emphasis, and
\* whether the border was drawn.  index of the code is i - 1.
RenderFrame(d, yy, height) ==
    IF height < 1
    THEN [done |-> TRUE, n |-> Len(d), y |-> yy, h |-> height, starting |-> 0,
          rows |-> << >>, border |-> FALSE]
    ELSE
      LET innner_height == WrappingSub16(height, 2)
          starting == Min(yy, saturating_sub(Len(d), innner_height))
          messages_to_render == Take(Skip(Reverse(d), starting), innner_height)
          messages == Reverse(messages_to_render)
      IN  [done |-> TRUE, n |-> Len(d), y |-> yy, h |-> height,
           starting |-> starting,
           rows |-> [i \in 1..Len(messages) |->
                       [line |-> messages[i],
                        row |-> i,
                        emphasis |-> yy = starting + (innner_height - (i - 1)) - 1]],
           border |-> TRUE]

\* Table::new(data), in a build with or without overflow checks.
TableInit ==
    /\ y = 0
    /\ data \in { Lines(n) : n \in Sizes }
    /\ frame = NoFrame
    /\ table_status = "ok"
    /\ overflow_checks \in BOOLEAN
    /\ table_last = "new"

\* Table::new(data) again: a new table takes the place of the old one.
TableNew(d) ==
    /\ table_status = "ok"
    /\ y' = 0
    /\ data' = d
    /\ table_last' = "new"
    /\ UNCHANGED << frame, table_status, overflow_checks >>
    /\ UNCHANGED outside_table

\* The owner assigns the public field: table.data = d.
SwapData(d) ==
    /\ table_status = "ok"
    /\ data' = d
    /\ table_last' = "swap"
    /\ UNCHANGED << y, frame, table_status, overflow_checks >>
    /\ UNCHANGED outside_table

\* self.y = max(self.y.saturating_sub(by.unwrap_or(1)), 0)
scroll_down(by) ==
    /\ table_status = "ok"
    /\ y' = Max(saturating_sub(y, unwrap_or(by, 1)), 0)
    /\ table_last' = "scroll_down"
    /\ UNCHANGED << data, frame, table_status, overflow_checks >>
    /\ UNCHANGED outside_table

\* self.y = min(self.y.saturating_add(by.unwrap_or(1)), self.data.len() - 1)
\* For an empty table data.len() - 1 overflows usize: a panic with overflow
\* checks, 2^64 - 1 without them, and then the minimum is y + by.
scroll_up(by) ==
    /\ table_status = "ok"
    /\ table_last' = "scroll_up"
    /\ IF Len(data) = 0
       THEN IF overflow_checks
            THEN /\ table_status' = "panic_scroll_up"
                 /\ y' = y
            ELSE /\ y + unwrap_or(by, 1) <= MaxY
                 /\ y' = y + unwrap_or(by, 1)
                 /\ UNCHANGED table_status
       ELSE /\ y' = Min(y + unwrap_or(by, 1), Len(data) - 1)
            /\ UNCHANGED table_status
    /\ UNCHANGED << data, frame, overflow_checks >>
    /\ UNCHANGED outside_table

\* render(area, buf) for an area of the given height.  height = 1 passes the
\* height < 1 test and height - 2 overflows u16: a panic with overflow
\* checks, 65535 without them.
render(height) ==
    /\ table_status = "ok"
    /\ table_last' = "render"
    /\ IF height = 1 /\ overflow_checks
       THEN /\ table_status' = "panic_render"
            /\ UNCHANGED frame
       ELSE /\ frame' = RenderFrame(data, y, height)
            /\ UNCHANGED table_status
    /\ UNCHANGED << y, data, overflow_checks >>
    /\ UNCHANGED outside_table

TableNext ==
    \/ \E d \in { Lines(n) : n \in Sizes } : TableNew(d)
    \/ \E d \in { Lines(n) : n \in Sizes } : SwapData(d)
    \/ \E by \in Amounts : scroll_down(by)
    \/ \E by \in Amounts : scroll_up(by)
    \/ \E height \in Heights : render(height)

InitTable == ViewerParked /\ TableInit /\ ListParked

SpecTable == InitTable /\ [][TableNext]_vars

\* ------------------------------------------------------------- claims
\* The task has written the shared state at least once.
Begun(t) == pc[t] \notin {"unspawned", "spawned"}

\* u was spawned by 'r' presses that follow the selection t was spawned for.
SameSelection(t, u) == t < u /\ \A v \in (t + 1)..u : restarted[v]

\* The senders of the ReRender messages that wait in the channel or that the
\* foreground loop has received and is about to act on.
Notifiers ==
    { chan[i].from : i \in { j \in 1..Len(chan) : chan[j].kind = "ReRender" } }
    \cup (IF fg_pc = "set_logs" THEN {fg_from} ELSE {})

\* The @message values of the rows of a response, in the order in which the
\* collaborator returned the rows.
CollaboratorOrder(rows) ==
    [i \in 1..Len(rows) |-> UnwrapOrDefault(rows[i][1].value)]

C2_WriteBeforeNotify ==
    \A t \in Notifiers :
        /\ t \in Tasks
        /\ wrote_final[t]
        /\ last_writer = t =>
             /\ loading_state = "Loaded"
             /\ \E rows \in Results(task_group[t]) :
                   log_messsages = ExtractMessages(rows)

\* C2 witness: the loop has received a task's ReRender and is about to read
\* the state that task wrote last.
C2_Witness ==
    /\ fg_pc = "set_logs"
    /\ fg_from \in Tasks
    /\ last_writer = fg_from
    /\ log_messsages # << >>

\* C3 (as claimed): once a restart task of the same selection has begun, the
\* task it supersedes never writes the shared state again.
C3_Original ==
    \A t \in Tasks : \A u \in Tasks :
        (SameSelection(t, u) /\ Begun(u)) => last_writer # t

\* C4 (as claimed): a task whose query was reported Failed or Timeout has
\* stopped polling.
C4_Original ==
    \A t \in Tasks : q_status[t] \in {"Failed", "Timeout"} => pc[t] = "done"

\* C5 (as claimed): the status left by the last write of a task whose query
\* was reported Failed is Error, and TimedOut for one reported Timeout.
C5_Original ==
    \A t \in Tasks :
        /\ (last_writer = t /\ q_status[t] = "Failed") => loading_state = "Error"
        /\ (last_writer = t /\ q_status[t] = "Timeout") => loading_state = "TimedOut"

\* C6 (as claimed): Loaded becomes Loading only by the first write of a newly
\* started task, and Error and TimedOut are changed by nothing else either.
C6_Original ==
    [][(\/ loading_state = "Loaded" /\ loading_state' = "Loading"
        \/ loading_state \in {"Error", "TimedOut"} /\ loading_state' # loading_state)
       => \E t \in Tasks : pc[t] = "spawned" /\ pc'[t] = "starting"]_vars

C8_Original ==
    [][\A t \in Tasks :
         (pc[t] = "starting" /\ pc'[t] \notin {"starting", "polling"})
         => (pc'[t] = "done" /\ loading_state' = "Error")]_vars

\* C9 (as claimed): a get_query_results request that fails ends the task
\* without a panic and with Error recorded.
C9_Original ==
    [][\A t \in Tasks :
         (pc[t] = "polling" /\ pc'[t] \notin {"polling", "notify"})
         => (pc'[t] = "done" /\ loading_state' = "Error")]_vars

MaxFetch == 2
\* Number of messages that may wait in the group list's channel.
MaxListChan == 1
\* Longest search term typed.
MaxTerm == 2

FetchTasks == 1..MaxFetch

\* A step of the list that is not a key event; applied tells whether it ran
\* apply_search.
Step(op, applied) ==
    [op |-> op, code |-> "", ch |-> "", was_searching |-> FALSE,
     applied |-> applied, consumed |-> FALSE]

\* The pages describe_log_groups returns, in order.
Pages == << << "auth" >>, << "payments-qu" >> >>

Chars(name) ==
    CASE name = "auth" -> << "a", "u", "t", "h" >>
      [] name = "payments-qu" ->
           << "p", "a", "y", "m", "e", "n", "t", "s", "-", "q", "u" >>
      [] OTHER -> << >>

\* Largest row index the selection is followed to between two draws: one
\* beyond the rows of a list fetched once.
MaxSel == Len(Pages) + 1

\* The characters typed into the search field, the two command characters
\* that App and the list give a meaning outside of it among them, and those
\* that are commands outside search mode.
TermChars == {"a", "u", "q", "/"}
CommandChars == {"/", "j", "k", "r", "q"}

KeyKinds == {"Press", "Release"}

\* crossterm's key events: a kind, a code and, for Char, the character.
Key(kind, code, ch) == [kind |-> kind, code |-> code, ch |-> ch]
Keys ==
    { Key(kind, code, "") :
        kind \in KeyKinds,
        code \in {"Esc", "Backspace", "Enter", "Down", "Up", "Tab"} }
    \cup { Key(kind, "Char", ch) : kind \in KeyKinds, ch \in TermChars \cup CommandChars }

\* LogGroupSelectionOutboundMessage
ListMsg(kind, name) == [kind |-> kind, name |-> name]

\* usize::MAX stands for 2^64 - 1, which is beyond the integers of the model
\* checker; all that matters of it is that it is larger than every index of
\* a list and that additions saturate at it.
UsizeMax == 2 ^ 30

\* ratatui's TableState: select_next, select_previous, select_first.
select_next(sel) == Some(IF sel.some THEN Min(sel.v + 1, UsizeMax) ELSE 0)
select_previous(sel) == Some(IF sel.some THEN saturating_sub(sel.v, 1) ELSE UsizeMax)
select_first == Some(0)

\* ratatui's Table, drawn with a state: a selection beyond the last row is
\* moved to the last row, and there is no selection when there is no row.
RenderSelection(sel, rows) ==
    IF rows = 0 THEN None
    ELSE IF sel.some /\ sel.v >= rows THEN Some(rows - 1)
    ELSE sel

\* SkimMatcherV2::fuzzy_indices, abstracted: the term matches a name when its
\* characters occur in the name in order; the indices are those of the
\* leftmost such occurrence, counted from 0, and the score is 16 for every
\* matched character less k + 2 for every run of k skipped characters before
\* a matched one.
FirstAt(cs, c, i) ==
    LET S == { k \in i..Len(cs) : cs[k] = c }
    IN  IF S = {} THEN 0 ELSE CHOOSE k \in S : \A j \in S : k <= j

RECURSIVE Leftmost(_, _, _)
Leftmost(cs, term, i) ==
    IF term = << >>
    THEN [ok |-> TRUE, indices |-> << >>]
    ELSE LET k == FirstAt(cs, Head(term), i)
         IN  IF k = 0
             THEN [ok |-> FALSE, indices |-> << >>]
             ELSE LET rest == Leftmost(cs, Tail(term), k + 1)
                  IN  IF rest.ok
                      THEN [ok |-> TRUE, indices |-> << k - 1 >> \o rest.indices]
                      ELSE [ok |-> FALSE, indices |-> << >>]

GapPenalty(k) == IF k = 0 THEN 0 ELSE k + 2

RECURSIVE ScoreOf(_, _)
ScoreOf(indices, from) ==
    IF indices = << >>
    THEN 0
    ELSE 16 - GapPenalty(Head(indices) - from)
         + ScoreOf(Tail(indices), Head(indices) + 1)

fuzzy_indices(group, term) ==
    LET m == Leftmost(Chars(group), term, 1)
    IN  IF m.ok
        THEN [some |-> TRUE, score |-> ScoreOf(m.indices, 0), indices |-> m.indices]
        ELSE [some |-> FALSE, score |-> 0, indices |-> << >>]

\* Faulty variant of ScoreFilter: a score of 5 passes as well.
ScoreFilterFrom5(found) == found.some /\ found.score >= 5

\* .filter(|(_, score)| match score { Some((s, _)) => s > &5, None => false })
ScoreFilter(found) == found.some /\ found.score > 5

\* log_groups.clone().into_iter().map(|group| (group, vec![])).collect()
Unfiltered(groups) ==
    [i \in 1..Len(groups) |-> [group |-> groups[i], indices |-> << >>]]

\* Faulty variant of Filtered: only the first character of the term is
\* matched.
FilteredByFirstChar(groups, term) ==
    LET scored == [i \in 1..Len(groups) |->
                     [group |-> groups[i],
                      found |-> fuzzy_indices(groups[i], << Head(term) >>)]]
        kept == SelectSeq(scored, LAMBDA e : ScoreFilter(e.found))
    IN  [i \in 1..Len(kept) |->
           [group |-> kept[i].group, indices |-> kept[i].found.indices]]

\* The matcher applied to every group, the filter, and the indices kept.
Filtered(groups, term) ==
    LET scored == [i \in 1..Len(groups) |->
                     [group |-> groups[i], found |-> fuzzy_indices(groups[i], term)]]
        kept == SelectSeq(scored, LAMBDA e : ScoreFilter(e.found))
    IN  [i \in 1..Len(kept) |->
           [group |-> kept[i].group, indices |-> kept[i].found.indices]]

\* Faulty variant of apply_search: the early return for the empty term is
\* missing.
apply_search_always_matching(groups, term) == Filtered(groups, term)

\* apply_search: the value it gives sorted_log_groups.
apply_search(groups, term) ==
    IF term = << >> THEN Unfiltered(groups) ELSE Filtered(groups, term)

\* String::pop
Pop(term) == IF term = << >> THEN term ELSE SubSeq(term, 1, Len(term) - 1)

\* Faulty variant of Consumed: only Esc is reported as consumed.
ConsumedOnlyEsc(key) == key.code = "Esc"

\* Faulty variant of Consumed: the search field consumes nothing.
ConsumedNothing(key) == FALSE

\* The value handle_event returns in search mode.
Consumed(key) == key.code = "Esc" \/ (key.code = "Char" /\ key.ch = "q")

\* LogGroupListComponent::new, followed by the run() with which App::run
\* begins.
ListInit ==
    /\ log_groups = << >>
    /\ list_loading_state = "Idle"
    /\ table_state = None
    /\ list_lock = 0
    /\ list_chan = << >>
    /\ sorted_log_groups = << >>
    /\ search_term = << >>
    /\ is_searching = FALSE
    /\ should_quit = FALSE
    /\ n_fetch = 1
    /\ fetch_pc = [t \in FetchTasks |-> IF t = 1 THEN "spawned" ELSE "unspawned"]
    /\ next_token = [t \in FetchTasks |-> 0]
    /\ list_last = Step("new", FALSE)

\* ------------------------------------------------------------ fetch task
\* fetch_log_groups: loading_state = Loading, then the first page is
\* requested.
FetchBegin(t) ==
    /\ ~should_quit
    /\ fetch_pc[t] = "spawned"
    /\ list_lock = 0
    /\ list_loading_state' = "Loading"
    /\ fetch_pc' = [fetch_pc EXCEPT ![t] = "requesting"]
    /\ next_token' = [next_token EXCEPT ![t] = 1]
    /\ list_last' = Step("fetch", FALSE)
    /\ UNCHANGED << log_groups, table_state, list_lock, list_chan, sorted_log_groups,
                    search_term, is_searching, should_quit, n_fetch >>
    /\ UNCHANGED outside_list

\* Faulty variant of FetchSend: the guard is not dropped at the end of the
\* loop body.
FetchSendKeepGuard(t) ==
    /\ ~should_quit
    /\ fetch_pc[t] = "sending"
    /\ list_lock = t
    /\ list_chan' = Append(list_chan, ListMsg("ApplySearch", ""))
    /\ IF next_token[t] < Len(Pages)
       THEN /\ next_token' = [next_token EXCEPT ![t] = @ + 1]
            /\ fetch_pc' = [fetch_pc EXCEPT ![t] = "requesting"]
            /\ UNCHANGED list_loading_state
       ELSE /\ list_loading_state' = "Loaded"
            /\ fetch_pc' = [fetch_pc EXCEPT ![t] = "done"]
            /\ UNCHANGED next_token
    /\ list_lock' = IF fetch_pc'[t] = "done" THEN 0 ELSE t
    /\ list_last' = Step("fetch", FALSE)
    /\ UNCHANGED << log_groups, table_state, sorted_log_groups, search_term,
                    is_searching, should_quit, n_fetch >>
    /\ UNCHANGED outside_list

\* describe_log_groups answers Ok: the write guard is taken, the page is
\* appended and the first row is selected.
FetchPageOk(t) ==
    /\ ~should_quit
    /\ fetch_pc[t] = "requesting"
    /\ list_lock = 0
    /\ Len(list_chan) < MaxListChan
    /\ list_lock' = t
    /\ log_groups' = log_groups \o Pages[next_token[t]]
    /\ table_state' = IF log_groups' # << >> THEN select_first ELSE table_state
    /\ fetch_pc' = [fetch_pc EXCEPT ![t] = "sending"]
    /\ list_last' = Step("fetch", FALSE)
    /\ UNCHANGED << list_loading_state, list_chan, sorted_log_groups, search_term,
                    is_searching, should_quit, n_fetch, next_token >>
    /\ UNCHANGED outside_list

\* Under the guard still: ApplySearch is sent, and the next page is requested
\* or the status becomes Loaded and the task returns; the guard is dropped at
\* the end of the loop body.
FetchSend(t) ==
    /\ ~should_quit
    /\ fetch_pc[t] = "sending"
    /\ list_lock = t
    /\ list_chan' = Append(list_chan, ListMsg("ApplySearch", ""))
    /\ IF next_token[t] < Len(Pages)
       THEN /\ next_token' = [next_token EXCEPT ![t] = @ + 1]
            /\ fetch_pc' = [fetch_pc EXCEPT ![t] = "requesting"]
            /\ UNCHANGED list_loading_state
       ELSE /\ list_loading_state' = "Loaded"
            /\ fetch_pc' = [fetch_pc EXCEPT ![t] = "done"]
            /\ UNCHANGED next_token
    /\ list_lock' = 0
    /\ list_last' = Step("fetch", FALSE)
    /\ UNCHANGED << log_groups, table_state, sorted_log_groups, search_term,
                    is_searching, should_quit, n_fetch >>
    /\ UNCHANGED outside_list

\* describe_log_groups answers Err: Error(err), the list is cleared, return.
FetchPageErr(t) ==
    /\ ~should_quit
    /\ fetch_pc[t] = "requesting"
    /\ list_lock = 0
    /\ list_loading_state' = "Error"
    /\ log_groups' = << >>
    /\ fetch_pc' = [fetch_pc EXCEPT ![t] = "failed"]
    /\ list_last' = Step("fetch", FALSE)
    /\ UNCHANGED << table_state, list_lock, list_chan, sorted_log_groups,
                    search_term, is_searching, should_quit, n_fetch, next_token >>
    /\ UNCHANGED outside_list

\* ------------------------------------------------------------ foreground
\* App::handle_event for a key event: LogGroupListComponent::handle_event,
\* then q and Esc quit unless the list consumed the event.
handle_event(key) ==
    LET press == key.kind = "Press"
        \* the first match of the list's handler, for presses
        moved == IF press /\ key.code = "Down" THEN select_next(table_state)
                 ELSE IF press /\ key.code = "Up" THEN select_previous(table_state)
                 ELSE table_state
        row == unwrap_or(table_state, 0) + 1
        sends == press /\ key.code = "Enter" /\ row <= Len(sorted_log_groups)
        sent == IF sends
                THEN Append(list_chan, ListMsg("SelectedGroup", sorted_log_groups[row].group))
                ELSE list_chan
        \* the search field
        term == CASE key.code = "Esc" -> << >>
                  [] key.code = "Backspace" -> Pop(search_term)
                  [] key.code = "Char" -> Append(search_term, key.ch)
                  [] OTHER -> search_term
        \* the keys outside search mode, for presses
        command == IF press /\ key.code = "Char" THEN key.ch ELSE ""
        spawns_fetch == command = "r" /\ list_loading_state # "Loading"
        prevent_exit == is_searching /\ Consumed(key)
    IN  /\ ~should_quit
        /\ list_lock = 0
        /\ sends => Len(list_chan) < MaxListChan
        /\ list_chan' = sent
        /\ IF is_searching
           THEN /\ key.code = "Char" => (key.ch \in TermChars /\ Len(search_term) < MaxTerm)
                /\ is_searching' = (key.code # "Esc")
                /\ search_term' = term
                /\ sorted_log_groups' = apply_search(log_groups, term)
                /\ table_state' = moved
                /\ UNCHANGED << n_fetch, fetch_pc >>
           ELSE /\ is_searching' = (command = "/")
                /\ table_state' = CASE command = "j" -> select_next(moved)
                                    [] command = "k" -> select_previous(moved)
                                    [] OTHER -> moved
                /\ IF spawns_fetch
                   THEN /\ n_fetch < MaxFetch
                        /\ n_fetch' = n_fetch + 1
                        /\ fetch_pc' = [fetch_pc EXCEPT ![n_fetch + 1] = "spawned"]
                   ELSE UNCHANGED << n_fetch, fetch_pc >>
                /\ UNCHANGED << search_term, sorted_log_groups >>
        /\ table_state'.some => (table_state'.v <= MaxSel \/ table_state'.v = UsizeMax)
        /\ should_quit' = (/\ press
                           /\ key.code = "Esc" \/ (key.code = "Char" /\ key.ch = "q")
                           /\ ~prevent_exit)
        /\ list_last' = [op |-> "key", code |-> key.code, ch |-> key.ch,
                         was_searching |-> is_searching,
                         applied |-> is_searching, consumed |-> prevent_exit]
        /\ UNCHANGED << log_groups, list_loading_state, list_lock, next_token >>
        /\ UNCHANGED outside_list

\* The application receives a message of the list's channel: ApplySearch
\* leads to apply_search, SelectedGroup goes to the log viewer.
ListRecv ==
    /\ ~should_quit
    /\ list_lock = 0
    /\ list_chan # << >>
    /\ list_chan' = Tail(list_chan)
    /\ IF Head(list_chan).kind = "ApplySearch"
       THEN /\ sorted_log_groups' = apply_search(log_groups, search_term)
            /\ list_last' = Step("recv", TRUE)
       ELSE /\ UNCHANGED sorted_log_groups
            /\ list_last' = Step("recv", FALSE)
    /\ UNCHANGED << log_groups, list_loading_state, table_state, list_lock,
                    search_term, is_searching, should_quit, n_fetch, fetch_pc,
                    next_token >>
    /\ UNCHANGED outside_list

\* App::draw: the list is rendered, which settles the selection.
ListRender ==
    /\ ~should_quit
    /\ list_lock = 0
    /\ table_state' = RenderSelection(table_state, Len(sorted_log_groups))
    /\ list_last' = Step("render", FALSE)
    /\ UNCHANGED << log_groups, list_loading_state, list_lock, list_chan,
                    sorted_log_groups, search_term, is_searching, should_quit,
                    n_fetch, fetch_pc, next_token >>
    /\ UNCHANGED outside_list

FetchNext(t) ==
    \/ FetchBegin(t)
    \/ FetchPageOk(t)
    \/ FetchSend(t)
    \/ FetchPageErr(t)

ListNext ==
    \/ \E t \in FetchTasks : FetchNext(t)
    \/ \E key \in Keys : handle_event(key)
    \/ ListRecv
    \/ ListRender

InitList == ViewerParked /\ TableParked /\ ListInit

SpecList == InitList /\ [][ListNext]_vars

\* =================================================== the background tasks
\* The retrieval task of the log viewer and the fetch task of the group list
\* running side by side under the application, which selects a group and
\* receives what the tasks send.  No key is pressed: every task is the first
\* of its kind.
InitTasks == ViewerInit /\ TableParked /\ ListInit

TasksNext ==
    \/ \E t \in Tasks : TaskNext(t)
    \/ \E t \in FetchTasks : FetchNext(t)
    \/ \E g \in Groups : SelectGroup(g)
    \/ Recv
    \/ set_logs
    \/ ListRecv

SpecTasks == InitTasks /\ [][TasksNext]_vars

\* ------------------------------------------------- claims: log_group.rs
\* C11 as stated: a task that has handled a Complete response without rows
\* has left the status Loaded in the shared state (it still holds the guard),
\* and having sent its notification it has stopped.
C11_Original ==
    \A t \in Tasks :
        /\ (pc[t] = "notify" /\ resp[t].status = "Complete" /\ resp[t].rows = << >>)
             => loading_state = "Loaded"
        /\ notified[t] = 1 => pc[t] = "done"

\* ----------------------------------------------------- claims: table.rs
\* The inner height the specification gives an area of height h.
InnerHeightOf(h) == h - 2

\* The 1-based positions of the lines the specification's slice
\* [n - innerHeight - start, n - start) clipped to [0, n) selects.
SliceOf(n, offset, h) ==
    LET start == Min(offset, Max(0, n - InnerHeightOf(h)))
    IN  { p \in 1..n : n - InnerHeightOf(h) - start < p /\ p <= n - start }

\* The largest offset the specification allows for n lines in an area of
\* height h.
OffsetBound(n, h) == Max(0, n - Max(0, InnerHeightOf(h)))

C13_Original ==
    /\ table_status # "panic_render"
    /\ frame.done =>
         /\ Len(frame.rows) = Min(frame.n, Max(0, frame.h - 2))
         /\ frame.starting >= 0
         /\ frame.starting <= frame.n

\* C14 as stated: after any scroll_up and scroll_down calls on a table shown
\* with a given inner height, y lies in [0, max(0, lineCount - innerHeight)].
\* It is stated here for the tables that have a line and were last drawn,
\* with these lines, into an area of height 2 or more.
C14_Original ==
    (/\ frame.done
     /\ frame.h >= 2
     /\ frame.n = Len(data)
     /\ Len(data) >= 1
     /\ table_last \in {"scroll_up", "scroll_down"}) =>
        /\ y >= 0
        /\ y <= OffsetBound(Len(data), frame.h)

\* C15 as stated: a swap of data re-clamps y; an offset that was within the
\* bound of the old lines is within the bound of the new lines after the swap.
\* The inner height is that of the area the table was last drawn into, of
\* height 2 or more.
C15_Original ==
    [][(/\ table_last' = "swap"
        /\ frame.done
        /\ frame.h >= 2
        /\ y <= OffsetBound(Len(data), frame.h))
       => y' <= OffsetBound(Len(data'), frame.h)]_vars

\* C16 as stated: scroll_up and scroll_down with any amount return without
\* error on every table, and on an empty table they leave y at 0.
C16_Original ==
    /\ [](table_status \notin {"panic_scroll_up", "panic_scroll_down"})
    /\ [][(/\ table_last' \in {"scroll_up", "scroll_down"}
           /\ Len(data) = 0
           /\ y = 0)
          => y' = 0]_vars

\* C17 as stated: when render draws a line, exactly one drawn row is
\* emphasised, the row of the line that is y lines above the most recent one.
\* It is stated here for the areas of height 2 or more.
C17_Original ==
    (frame.done /\ frame.h >= 2 /\ Len(frame.rows) >= 1) =>
        /\ Cardinality({ i \in 1..Len(frame.rows) : frame.rows[i].emphasis }) = 1
        /\ \A i \in 1..Len(frame.rows) :
             frame.rows[i].emphasis <=> (frame.n - frame.rows[i].line = frame.y)

\* ------------------------------------------------ claims: log_groups.rs
\* The positions in groups of the names for which the matcher returns a
\* score above 5 for the term.
Kept(groups, term) ==
    { i \in 1..Len(groups) :
        LET found == fuzzy_indices(groups[i], term)
        IN  found.some /\ found.score > 5 }

\* The j-th smallest element of a set of numbers.
Nth(S, j) == CHOOSE i \in S : Cardinality({ k \in S : k <= i }) = j

\* C18: when apply_search has run with the empty term, the filtered view is
\* the candidate list, name by name in its order, each name with no matched
\* index.
C18_EmptyTermKeepsAll ==
    (list_last.applied /\ search_term = << >>) =>
        /\ Len(sorted_log_groups) = Len(log_groups)
        /\ \A i \in 1..Len(log_groups) :
             /\ sorted_log_groups[i].group = log_groups[i]
             /\ sorted_log_groups[i].indices = << >>

\* C18 happens: Backspace empties the search term over a list of two or more
\* names.
C18_Witness ==
    /\ list_last.applied
    /\ list_last.code = "Backspace"
    /\ search_term = << >>
    /\ Len(log_groups) >= 2
    /\ Len(sorted_log_groups) = Len(log_groups)

\* C19: when apply_search has run with a non-empty term, the filtered view
\* holds exactly the candidates for which the matcher returns a score above
\* 5, in the order of the candidate list.
C19_ScoreAboveFive ==
    (list_last.applied /\ search_term # << >>) =>
        /\ Len(sorted_log_groups) = Cardinality(Kept(log_groups, search_term))
        /\ \A j \in 1..Len(sorted_log_groups) :
             sorted_log_groups[j].group
               = log_groups[Nth(Kept(log_groups, search_term), j)]

\* C19 happens: a term keeps two candidates and drops one that the matcher
\* matched with a score of 5 or less.
C19_Witness ==
    /\ list_last.applied
    /\ search_term # << >>
    /\ Len(sorted_log_groups) >= 2
    /\ \E i \in 1..Len(log_groups) :
         /\ fuzzy_indices(log_groups[i], search_term).some
         /\ fuzzy_indices(log_groups[i], search_term).score <= 5

\* C20: after Esc has been handled in search mode, search mode is off, the
\* term is empty, the filtered view is the candidate list in its order with
\* no matched index, the event was reported as consumed and the application
\* has not quit.
C20_EscLeavesSearch ==
    (list_last.op = "key" /\ list_last.code = "Esc" /\ list_last.was_searching) =>
        /\ ~is_searching
        /\ search_term = << >>
        /\ Len(sorted_log_groups) = Len(log_groups)
        /\ \A i \in 1..Len(log_groups) :
             /\ sorted_log_groups[i].group = log_groups[i]
             /\ sorted_log_groups[i].indices = << >>
        /\ list_last.consumed
        /\ ~should_quit

\* C20 happens: Esc is handled in search mode over a list of two or more
\* names.
C20_Witness ==
    /\ list_last.op = "key"
    /\ list_last.code = "Esc"
    /\ list_last.was_searching
    /\ ~is_searching
    /\ Len(log_groups) >= 2
    /\ ~should_quit

\* The row the list shows highlighted: the selected row when the filtered
\* view has such a row, no row otherwise.
Highlighted ==
    IF table_state.some /\ table_state.v < Len(sorted_log_groups)
    THEN Some(table_state.v)
    ELSE None

\* C21 as stated: a press of Enter over a non-empty filtered view sends one
\* SelectedGroup message, with the name of the highlighted row; over an empty
\* filtered view it sends nothing.
C21_Original ==
    [][handle_event(Key("Press", "Enter", "")) =>
         IF sorted_log_groups # << >>
         THEN /\ Highlighted.some
              /\ list_chan' = Append(list_chan,
                                ListMsg("SelectedGroup",
                                        sorted_log_groups[Highlighted.v + 1].group))
         ELSE list_chan' = list_chan]_vars

\* ---------------------------------------------- claims: log_viewer.rs, II
\* C22: when the last write of the shared state is that of a task handling a
\* poll response whose status is Running, the shared lines are the @message
\* values of the rows of that response (some first rows of the query's
\* result, in reverse order) and the shared status is Loading; the task has
\* sent nothing, holds no guard and is back at the sleep that precedes its
\* next poll, or that next poll has failed.
C22_RunningKeepsLoading ==
    \A t \in Tasks :
        (last_writer = t /\ q_status[t] = "Running") =>
            /\ \E rows \in UNION { Prefixes(all) : all \in Results(task_group[t]) } :
                  log_messsages = Reverse(CollaboratorOrder(rows))
            /\ loading_state = "Loading"
            /\ notified[t] = 0
            /\ lock # t
            /\ pc[t] \in {"polling", "panic_poll"}

\* C22 happens: a task's query is Running, the task wrote last and left a
\* partial result of two of the three lines of g1, and it is about to poll
\* again.
C22_Witness ==
    \E t \in Tasks :
        /\ q_status[t] = "Running"
        /\ last_writer = t
        /\ pc[t] = "polling"
        /\ task_group[t] = "g1"
        /\ loading_state = "Loading"
        /\ log_messsages = << "a", "c" >>

\* C23 as stated: with one retrieval task and no restart, once the task has
\* started the shared status is never Idle while the query is in a
\* non-terminal status.
C23_Original ==
    \A t \in Tasks :
        (/\ n_tasks = 1
         /\ Begun(t)
         /\ q_status[t] \notin Terminal)
        => loading_state # "Idle"

\* C29: under fair scheduling every spawned retrieval task ends having
\* written Loaded with the result of a Complete response and sent its one
\* ReRender, unless start_query fails, a poll fails, or the service reports
\* the query Failed or Timeout instead of Complete.
C29_RetrievalTerminates ==
    \A t \in Tasks :
        (pc[t] = "spawned") ~>
            (\/ pc[t] = "done" /\ wrote_final[t] /\ notified[t] = 1
             \/ pc[t] \in {"panic_start", "panic_poll"}
             \/ q_status[t] \in {"Failed", "Timeout"})

\* C29 happens: a task has ended after a query that was reported Scheduled,
\* then Running, then Complete; its lines are in the shared state.
C29_Witness ==
    \E t \in Tasks :
        /\ pc[t] = "done"
        /\ q_status[t] = "Complete"
        /\ wrote_final[t]
        /\ notified[t] = 1
        /\ last_writer = t
        /\ loading_state = "Loaded"
        /\ Len(log_messsages) = 3

\* ------------------------------------------- claims: the background tasks
\* C24: a retrieval task that waits for start_query, sleeps or waits for
\* get_query_results holds no guard of the viewer's state, and a fetch task
\* that waits for describe_log_groups holds no guard of the list's state; a
\* guard is held only by a task that is between two awaits, so while every
\* task is suspended both locks are free for the foreground loop.
C24_NoGuardAcrossAwait ==
    /\ \A t \in Tasks :
         pc[t] \in {"spawned", "starting", "polling"} => lock # t
    /\ \A t \in FetchTasks :
         fetch_pc[t] \in {"spawned", "requesting"} => list_lock # t
    /\ lock # 0 => pc[lock] = "notify"
    /\ list_lock # 0 => fetch_pc[list_lock] = "sending"
    /\ ((\A t \in Tasks : pc[t] # "notify")
        /\ (\A t \in FetchTasks : fetch_pc[t] # "sending"))
       => (lock = 0 /\ list_lock = 0)

\* C24 happens: a retrieval task that has written a partial result sleeps
\* before its next poll while a fetch task that has appended the first page
\* waits for the second one; both locks are free.
C24_Witness ==
    /\ \E t \in Tasks :
         /\ pc[t] = "polling"
         /\ last_writer = t
         /\ log_messsages # << >>
    /\ \E t \in FetchTasks :
         /\ fetch_pc[t] = "requesting"
         /\ next_token[t] = 2
         /\ log_groups # << >>
    /\ lock = 0
    /\ list_lock = 0

\* --------------------------------------------- claims: log_groups.rs, II
\* The filtered view that the candidate list and a term determine: every
\* candidate without matched indices for the empty term, otherwise the
\* candidates that score above 5, in the order of the list, each with the
\* indices the matcher found.
ViewOf(groups, term) ==
    IF term = << >>
    THEN [i \in 1..Len(groups) |-> [group |-> groups[i], indices |-> << >>]]
    ELSE [j \in 1..Cardinality(Kept(groups, term)) |->
            LET i == Nth(Kept(groups, term), j)
            IN  [group |-> groups[i],
                 indices |-> fuzzy_indices(groups[i], term).indices]]

\* C25: after every key event handled in search mode, whatever the key, the
\* filtered view is the one that the whole candidate list and the search
\* term, as they are after the event, determine.
C25_ViewRebuilt ==
    (list_last.op = "key" /\ list_last.was_searching) =>
        /\ list_last.applied
        /\ sorted_log_groups = ViewOf(log_groups, search_term)

\* C25 happens: Backspace in search mode leaves a term of one character that
\* keeps some candidates and drops others; the term before it kept a
\* different set.
C25_Witness ==
    /\ list_last.op = "key"
    /\ list_last.was_searching
    /\ list_last.code = "Backspace"
    /\ Len(search_term) = 1
    /\ Len(sorted_log_groups) >= 1
    /\ Len(sorted_log_groups) < Len(log_groups)
    /\ \E c \in TermChars :
         ViewOf(log_groups, Append(search_term, c)) # sorted_log_groups

\* The candidate list after a fetch of all pages from an empty list.
RECURSIVE Concat(_)
Concat(pages) ==
    IF pages = << >> THEN << >> ELSE Head(pages) \o Concat(Tail(pages))

\* C26 as stated, for the fetch that App::run starts over the empty list: from
\* its first request until its last page is appended the status is Loading;
\* when it ends after its last page the status is Loaded and the candidate
\* list is the concatenation of the pages in page order; when it ends on a
\* failed request the status is Error and the list is empty.
C26_Original ==
    /\ [](fetch_pc[1] \in {"requesting", "sending"}
            => list_loading_state = "Loading")
    /\ [][(fetch_pc[1] = "sending" /\ fetch_pc'[1] = "done")
            => (list_loading_state' = "Loaded" /\ log_groups' = Concat(Pages))]_vars
    /\ [][(fetch_pc[1] = "requesting" /\ fetch_pc'[1] = "failed")
            => (list_loading_state' = "Error" /\ log_groups' = << >>)]_vars

\* What holds of that fetch as long as no second fetch has been started.
InitialFetchAlone ==
    /\ [](n_fetch = 1 /\ fetch_pc[1] \in {"requesting", "sending"}
            => list_loading_state = "Loading")
    /\ [][(n_fetch' = 1 /\ fetch_pc[1] = "sending" /\ fetch_pc'[1] = "done")
            => (list_loading_state' = "Loaded" /\ log_groups' = Concat(Pages))]_vars
    /\ [][(n_fetch' = 1 /\ fetch_pc[1] = "requesting" /\ fetch_pc'[1] = "done")
            => (list_loading_state' = "Error" /\ log_groups' = << >>)]_vars

\* A sequence holds no element twice.
NoDuplicates(s) == \A i \in 1..Len(s) : \A j \in 1..Len(s) : s[i] = s[j] => i = j

\* C27 as stated, at the step that appends a page: when every other fetch
\* started so far has ended with its last page and the candidate list holds
\* no name twice, a page appended by the one fetch that runs leaves the list
\* without a name held twice.
C27_Original ==
    [][\A t \in FetchTasks :
         (/\ fetch_pc[t] = "requesting"
          /\ fetch_pc'[t] = "sending"
          /\ \A u \in FetchTasks \ {t} : fetch_pc[u] \in {"unspawned", "done"}
          /\ NoDuplicates(log_groups))
         => NoDuplicates(log_groups')]_vars

\* The fetch tasks that have been spawned and have not ended.
InFlight == { t \in FetchTasks : fetch_pc[t] \in {"spawned", "requesting", "sending"} }

\* C28 as stated: at most one fetch task is in flight at any time.
C28_Original == Cardinality(InFlight) <= 1

\* C30: a 'q' typed in search mode is appended to the search term and
\* reported as consumed, search mode stays on and the application does not
\* quit; search mode is switched on only by a press of '/' outside search
\* mode and switched off only by Esc.
C30_QuitKeyIsText ==
    [][/\ (\E kind \in KeyKinds : handle_event(Key(kind, "Char", "q")) /\ is_searching)
          => /\ search_term' = Append(search_term, "q")
             /\ list_last'.consumed
             /\ is_searching'
             /\ ~should_quit'
       /\ (~is_searching /\ is_searching')
          => handle_event(Key("Press", "Char", "/"))
       /\ (is_searching /\ ~is_searching')
          => \E kind \in KeyKinds : handle_event(Key(kind, "Esc", ""))]_vars

\* C30 happens: the search term ends with a 'q' that was typed in search mode
\* after a '/' had been typed there as well; search mode is on and the
\* application runs.
C30_Witness ==
    /\ list_last.op = "key"
    /\ list_last.was_searching
    /\ list_last.code = "Char"
    /\ list_last.ch = "q"
    /\ list_last.consumed
    /\ search_term = << "/", "q" >>
    /\ is_searching
    /\ ~should_quit

====
